---- MODULE Spec2Model ----
(***************************************************************************)
(* A model of the tool-calling Agent of agent_core.py (marker variant,     *)
(* mocked model backend) and agent_core_qwen.py (structured variant, real  *)
(* model backend).  One behaviour follows one Agent object of one of the   *)
(* two variants: tool registration, run, the retry loop of                 *)
(* _execute_action, and the two model-backend calls.                       *)
(***************************************************************************)
EXTENDS Integers, Sequences, FiniteSets, TLC

\* ---------------------------------------------------------------- bounds
MaxCalls == 2       \* longest tool_calls list a model response carries
MaxRequests == 2    \* calls of run made on one Agent
MaxSchemas == 2     \* register_tool calls made on one Agent
MaxTurns == 3       \* run is not called again once self.messages is this long
MaxPad == 1         \* longest run of whitespace between the parts of a text

\* ------------------------------------------------------- program constants
max_retries == 3

SystemPrompt == "system: you are an assistant, answer the question using tools"
NoActionReply == "Agent produced no valid Action."
UnparsableReply == "cannot parse the execution result."
SummaryTemplate == "model chose {thought}, tool results are {observation}, summarise and give the final answer"

\* ------------------------------------------------------------ input sets
Variants == {"marker", "qwen"}

\* functions offered to register_tool: __name__ and the function object
Funcs == {[name |-> "add", impl |-> "add#1"],
          [name |-> "get_weather", impl |-> "get_weather#1"]}
ToolNames == {f.name : f \in Funcs}

UserInputs == {"what is 3 plus 5?", "weather in Beijing today?"}

\* arguments strings of a tool-call entry: a JSON object and a truncated one
GoodArgs == "{\"a\": 3, \"b\": 5}"
BadArgs == "{\"a\": 3, "
ArgStrings == {GoodArgs, BadArgs}

\* what a handle returns: a JSON-serializable value and a Python set
SetValue == "{1, 2}"
ReturnValues == {"8", SetValue}
\* the message of an exception raised inside a handle
HandleErrors == {"division by zero"}
\* the content of the summary response
Summaries == {"the result is 8"}

NoReply == "<no reply>"

VARIABLES
  variant,          \* which of the two Agent classes this object is
  tools,            \* self.tools: name -> function object
  tool_schemas,     \* self.tool_schemas: schema list, by schema name
  messages,         \* self.messages
  pc,               \* position of run: Idle, DecisionPending, Executing, Summarizing
  actions,          \* the calls of the decision being executed
  thought,          \* action["thought"]
  idx,              \* position of the for loop over the calls (1-based)
  attempt,          \* attempts of the current call that have failed so far
  result,           \* the result dict of _execute_action, in insertion order
  handle_log,       \* per call: what each logged attempt got from the handle
  llm_response,     \* the model response run is working on
  observation,      \* the observation string handed to reply generation
  backend_request,  \* arguments of the model-backend call in flight / last made
  final_reply,      \* value returned by the last run, NoReply if none
  outcome,          \* how the last run ended: none, running, returned, backend_error, error
  requests          \* number of run calls made so far

vars == <<variant, tools, tool_schemas, messages, pc, actions, thought, idx,
          attempt, result, handle_log, llm_response, observation,
          backend_request, final_reply, outcome, requests>>

\* ------------------------------------------------------------ data shapes
Turn(role, content, th, obs) ==
  [role |-> role, content |-> content, thought |-> th, observation |-> obs]

NoObservation == [fmt |-> "none", doc |-> <<>>]

SystemMessage == Turn("system", SystemPrompt, "", NoObservation)

InitMessages == <<SystemMessage>>

UserTurn(user_input) == Turn("user", user_input, "", NoObservation)

AssistantTurn(th, obs) == Turn("assistant", SummaryTemplate, th, obs)

\* {"status": "success", "result": v}
SuccessDict(v) == [py |-> "dict", status |-> "success", payload |-> v]
\* {"status": "error", "message": m}
ErrorDict(m) == [py |-> "dict", status |-> "error", payload |-> m]
\* a bare Python string: str(e)
PyStr(m) == [py |-> "str", status |-> "", payload |-> m]

NotRegisteredQwen(name) == "tool " \o name \o " is not registered"
NotRegisteredMarker(name) == "Error: tool '" \o name \o "' is not registered or does not exist."
JsonDecodeError == "Expecting value"
NotSerializable == "Object of type set is not JSON serializable"

NoBackendRequest == [messages |-> <<>>, tools |-> <<>>, with_tools |-> FALSE, kind |-> "none"]

\* --------------------------------------------------------- pure functions
\* json.loads of an arguments string: the dict, or a JSONDecodeError
ArgsDecode(s) == IF s = GoodArgs THEN [ok |-> TRUE, value |-> "a=3,b=5"]
                 ELSE [ok |-> FALSE, value |-> JsonDecodeError]

\* json.dumps accepts a value unless it holds a Python set
JsonSerializable(v) == v # SetValue

\* the keys of a dict kept in insertion order
DictKeys(d) == {d[i][1] : i \in 1..Len(d)}

\* an assignment that keeps the entry a key already has (dict.setdefault)
DictSetDefault(d, k, v) ==
  IF k \in DictKeys(d) THEN d ELSE Append(d, <<k, v>>)

\* dict assignment d[k] = v: a new key goes last, an old one keeps its place
DictSet(d, k, v) ==
  IF k \in DictKeys(d)
  THEN [i \in 1..Len(d) |-> IF d[i][1] = k THEN <<k, v>> ELSE d[i]]
  ELSE Append(d, <<k, v>>)
DictGet(d, k) == d[CHOOSE i \in 1..Len(d) : d[i][1] = k][2]

\* json.dumps(result) of the structured variant raises on a set in a value
ResultSerializable(d) ==
  \A i \in 1..Len(d) : d[i][2].py = "dict" => JsonSerializable(d[i][2].payload)

JsonDumps(doc) == [fmt |-> "json", doc |-> doc]
PlainText(s) == [fmt |-> "text", doc |-> s]

\* ------------------------------------------- structured variant: responses
FinishReason(tcs) == IF Len(tcs) > 0 THEN "tool_calls" ELSE "stop"

\* a tool-call entry: function.name and function.arguments
ToolCallEntries == [name : ToolNames, arguments : ArgStrings]

ToolCallLists == UNION {[1..n -> ToolCallEntries] : n \in 0..MaxCalls}

\* completion.model_dump_json(): no choices, or one choice whose message
\* carries a (possibly empty) tool_calls list
LlmResponses ==
  {[choices |-> <<>>]} \cup
  {[choices |-> <<[finish_reason |-> FinishReason(tcs), tool_calls |-> tcs]>>] :
     tcs \in ToolCallLists}

None == [none |-> TRUE]

NoResponse == [choices |-> <<>>, pending |-> TRUE]

\* an extraction that keeps the first tool call only
ParseActionFirstOnly(response) ==
  IF /\ Len(response.choices) > 0
     /\ Len(response.choices[1].tool_calls) > 0
  THEN [actions |-> <<response.choices[1].tool_calls[1]>>,
        thought |-> response.choices[1].finish_reason]
  ELSE None

\* agent_core_qwen.py _parse_action
ParseActionQwen(response) ==
  IF /\ Len(response.choices) > 0
     /\ Len(response.choices[1].tool_calls) > 0
  THEN [actions |-> response.choices[1].tool_calls,
        thought |-> response.choices[1].finish_reason]
  ELSE None

\* ------------------------------------------------- marker variant: texts
\* "天气" in user_input.lower()
MentionsWeather(user_input) == user_input = "weather in Beijing today?"

WeatherJson == "{\"tool\": \"get_weather\", \"parameters\": {\"city\": \"Beijing\"}}"
AddJson == "{\"tool\": \"add\", \"parameters\": {\"a\": 3, \"b\": 5}}"

\* a text is a sequence of tokens: markers, whitespace, words, JSON objects
MockLlmResponse(user_input) ==
  IF MentionsWeather(user_input)
  THEN <<"Thought:", " ", "the user asks for the weather", "\n",
         "Action:", " ", WeatherJson, "\n", "Observation:", " ">>
  ELSE <<"Thought:", " ", "the user wants 3+5", "\n",
         "Action:", " ", AddJson, "\n", "Observation:", " ">>

IsSpace(t) == t \in {" ", "\n"}

RECURSIVE Join(_)
Join(ts) == IF ts = <<>> THEN "" ELSE Head(ts) \o Join(Tail(ts))

RECURSIVE Strip(_)
Strip(ts) ==
  IF ts = <<>> THEN ts
  ELSE IF IsSpace(Head(ts)) THEN Strip(Tail(ts))
  ELSE IF IsSpace(ts[Len(ts)]) THEN Strip(SubSeq(ts, 1, Len(ts) - 1))
  ELSE ts

\* pieces of JSON text: the add object cut before and after its parameters
\* object, and an object whose parameter string holds "} Observation:"
AddOpen == "{\"tool\": \"add\", \"parameters\": "
AddParams == "{\"a\": 3, \"b\": 5}"
CloseBrace == "}"
QuoteOpen == "{\"tool\": \"add\", \"parameters\": {\"a\": \""
QuoteClose == "\"}}"
BadOpen == "{\"tool\": "

AddPieces == <<AddOpen, AddParams, CloseBrace>>
QuotedMarker == <<QuoteOpen, CloseBrace, " ", "Observation:", QuoteClose>>

Missing == "<missing>"

\* json.loads of a segment: the token sequences that are JSON objects, with
\* what action.get("tool") and action.get("parameters", {}) give on them
JsonObjects ==
  (<<AddJson>> :> [tool |-> "add", parameters |-> "a=3,b=5"]) @@
  (AddPieces :> [tool |-> "add", parameters |-> "a=3,b=5"]) @@
  (<<WeatherJson>> :> [tool |-> "get_weather", parameters |-> "city=Beijing"]) @@
  (QuotedMarker :> [tool |-> "add", parameters |-> "a=} Observation:"]) @@
  (<<AddParams>> :> [tool |-> Missing, parameters |-> Missing])

\* json.loads of the Action segment: the dict, or a JSONDecodeError
MarkerJsonLoads(seg) ==
  IF seg \in DOMAIN JsonObjects
  THEN [ok |-> TRUE, tool |-> JsonObjects[seg].tool,
        parameters |-> JsonObjects[seg].parameters]
  ELSE [ok |-> FALSE, tool |-> "", parameters |-> ""]

\* re.search(r"Thought:\s*(.*?)\nAction:", text, re.DOTALL): leftmost
\* Thought:, then the nearest newline that Action: follows
ThoughtMatches(text) ==
  {<<i, j>> \in (1..Len(text)) \X (1..Len(text)) :
     /\ text[i] = "Thought:" /\ j > i /\ j < Len(text)
     /\ text[j] = "\n" /\ text[j + 1] = "Action:"}

ThoughtOf(text) ==
  IF ThoughtMatches(text) = {} THEN "No thought."
  ELSE LET i == CHOOSE a \in {m[1] : m \in ThoughtMatches(text)} :
                  \A b \in {m[1] : m \in ThoughtMatches(text)} : a <= b
           j == CHOOSE a \in {m[2] : m \in {n \in ThoughtMatches(text) : n[1] = i}} :
                  \A b \in {m[2] : m \in {n \in ThoughtMatches(text) : n[1] = i}} : a <= b
       IN Join(Strip(SubSeq(text, i + 1, j - 1)))

\* re.search(r"Action:\s*({.*?})\s*Observation:", ...): Action:, spaces, a
\* segment from an opening to a closing brace, spaces, Observation:
OpensBrace(t) == t \in {WeatherJson, AddJson, AddOpen, AddParams, QuoteOpen, BadOpen}
ClosesBrace(t) == t \in {WeatherJson, AddJson, AddParams, CloseBrace, QuoteClose}

\* the first position after i that holds no whitespace (\s* is skipped)
AfterSpaces(text, i) ==
  CHOOSE j \in (i + 1)..(Len(text) + 1) :
    /\ j = Len(text) + 1 \/ ~IsSpace(text[j])
    /\ \A k \in (i + 1)..(j - 1) : IsSpace(text[k])

\* <<Action:, opening brace, closing brace, Observation:>> positions
ActionMatches(text) ==
  {<<p[1], AfterSpaces(text, p[1]), p[2], AfterSpaces(text, p[2])>> :
     p \in {q \in (1..Len(text)) \X (1..Len(text)) :
              /\ text[q[1]] = "Action:"
              /\ AfterSpaces(text, q[1]) <= q[2]
              /\ OpensBrace(text[AfterSpaces(text, q[1])])
              /\ ClosesBrace(text[q[2]])
              /\ AfterSpaces(text, q[2]) <= Len(text)
              /\ text[AfterSpaces(text, q[2])] = "Observation:"}}

\* the leftmost match, its lazy group as short as it can be
ActionSegment(text) ==
  LET ms == ActionMatches(text)
      first == CHOOSE m \in ms : \A n \in ms :
                 \/ m[1] < n[1]
                 \/ m[1] = n[1] /\ m[3] <= n[3]
  IN Strip(SubSeq(text, first[2], first[3]))

\* the body of the try of _parse_action: what it returns, or that it raised
TryParseAction(text) ==
  IF ActionMatches(text) = {} THEN [raised |-> FALSE, value |-> None]
  ELSE IF ~MarkerJsonLoads(ActionSegment(text)).ok
  THEN [raised |-> TRUE, value |-> None]
  ELSE [raised |-> FALSE,
        value |-> [actions |-> <<[name |-> MarkerJsonLoads(ActionSegment(text)).tool,
                                  arguments |-> MarkerJsonLoads(ActionSegment(text)).parameters]>>,
                   thought |-> ThoughtOf(text)]]

\* a _parse_action without the except clause
Uncaught(tried) == tried

\* except Exception: return None
Caught(tried) ==
  [raised |-> FALSE, value |-> IF tried.raised THEN None ELSE tried.value]

\* a call of agent_core.py _parse_action: its return value, or that it raised
ParseActionCall(text) == Caught(TryParseAction(text))

\* agent_core.py _parse_action
ParseActionMarker(text) == ParseActionCall(text).value

\* the texts _parse_action is called on: an optional Thought part, an
\* optional Action part with a body, an optional Observation part, with
\* whitespace between them
Pads == UNION {[1..n -> {" ", "\n"}] : n \in 0..MaxPad}

ThoughtParts ==
  {<<>>} \cup
  {<<"Thought:">> \o p \o w :
     p \in {<<>>, <<" ">>}, w \in {<<>>, <<"w">>, <<"w", "Action:", "w">>}}

Bodies ==
  {<<AddJson>>, AddPieces, <<WeatherJson>>, QuotedMarker, <<AddParams>>,
   <<AddOpen, AddParams>>, <<BadOpen, CloseBrace>>, <<"w">>}

ActionParts ==
  {<<>>} \cup {<<"Action:">> \o p \o b : p \in Pads, b \in Bodies}

ObservationParts == {<<>>, <<"Observation:">>, <<"Observation:", " ", "w">>}

MarkerTexts ==
  {t \o p1 \o a \o p2 \o o :
     t \in ThoughtParts, p1 \in Pads, a \in ActionParts, p2 \in Pads,
     o \in ObservationParts}

\* agent_core.py _mock_generate_reply
MockGenerateReply(th, obs) ==
  IF obs.fmt # "json" THEN UnparsableReply
  ELSE IF obs.doc.status = "success" THEN "success, the result is: " \o obs.doc.payload
  ELSE "failed: " \o obs.doc.payload

\* ------------------------------------------------------------------ Init
\* Agent.__init__
Init ==
  /\ variant \in Variants
  /\ tools = [n \in {} |-> ""]
  /\ tool_schemas = <<>>
  /\ messages = InitMessages
  /\ pc = "Idle"
  /\ actions = <<>>
  /\ thought = ""
  /\ idx = 1
  /\ attempt = 0
  /\ result = <<>>
  /\ handle_log = <<>>
  /\ llm_response = NoResponse
  /\ observation = NoObservation
  /\ backend_request = NoBackendRequest
  /\ final_reply = NoReply
  /\ outcome = "none"
  /\ requests = 0

registry == <<tools, tool_schemas>>
conversation == <<messages, backend_request>>
decision == <<llm_response, actions, thought>>
engine == <<idx, attempt, result, handle_log, observation>>
ending == <<pc, final_reply, outcome>>

\* ------------------------------------------------------------- registry
\* self.tools[func.__name__] = func
ToolsAfterRegister(f) ==
  [n \in (DOMAIN tools) \cup {f.name} |-> IF n = f.name THEN f.impl ELSE tools[n]]

\* register_tool(func), both variants
register_tool(f) ==
  /\ pc = "Idle"
  /\ Len(tool_schemas) < MaxSchemas
  /\ tools' = ToolsAfterRegister(f)
  /\ tool_schemas' = Append(tool_schemas, f.name)
  /\ UNCHANGED <<variant, conversation, decision, engine, ending, requests>>

\* name in self.tools
Registered(name) == name \in DOMAIN tools

\* the log lines of one attempt of the current call: "executing tool ...
\* attempt n", then what the handle did
Returned(v) == [kind |-> "returned", value |-> v]
Raised(e) == [kind |-> "raised", value |-> e]
Logged(entry) == [handle_log EXCEPT ![idx] = Append(@, entry)]

\* a retry loop that gives up one attempt early
LastAttemptEarly == attempt + 1 >= max_retries - 1

\* has the attempt that just failed been the last one
LastAttempt == attempt + 1 = max_retries

\* ------------------------------------------------- structured variant: run
\* run up to the first model-backend call (_qwen_llm_response)
run_qwen(user_input) ==
  /\ variant = "qwen"
  /\ pc = "Idle"
  /\ requests < MaxRequests
  /\ Len(messages) < MaxTurns
  /\ requests' = requests + 1
  /\ messages' = Append(messages, UserTurn(user_input))
  /\ backend_request' = [kind |-> "decision", messages |-> messages',
                         tools |-> tool_schemas, with_tools |-> TRUE]
  /\ pc' = "DecisionPending"
  /\ llm_response' = NoResponse
  /\ actions' = <<>>
  /\ thought' = ""
  /\ idx' = 1
  /\ attempt' = 0
  /\ result' = <<>>
  /\ handle_log' = <<>>
  /\ observation' = NoObservation
  /\ final_reply' = NoReply
  /\ outcome' = "running"
  /\ UNCHANGED <<variant, registry>>

\* a run that forgets the reset
KeptMessages == messages

\* the reset at the end of run
ResetMessages == InitMessages

\* a not-action branch that goes on to the summary call
NoDecisionSummarizes ==
  /\ messages' = Append(messages, AssistantTurn("", NoObservation))
  /\ backend_request' = [kind |-> "summary", messages |-> messages',
                         tools |-> <<>>, with_tools |-> FALSE]
  /\ pc' = "Summarizing"
  /\ UNCHANGED <<actions, thought, handle_log, final_reply, outcome>>

\* the not-action branch of run: the fixed reply, the reset, the return
NoDecision ==
  /\ final_reply' = NoActionReply
  /\ messages' = ResetMessages
  /\ pc' = "Idle"
  /\ outcome' = "returned"
  /\ UNCHANGED <<actions, thought, handle_log, backend_request>>

\* the decision call returns: _parse_action, then either the not-action
\* branch or the start of _execute_action
decision_returns(response) ==
  /\ variant = "qwen"
  /\ pc = "DecisionPending"
  /\ llm_response' = response
  /\ LET action == ParseActionQwen(response) IN
       IF action = None
       THEN NoDecision
       ELSE /\ actions' = action.actions
            /\ thought' = action.thought
            /\ handle_log' = [i \in 1..Len(action.actions) |-> <<>>]
            /\ pc' = "Executing"
            /\ UNCHANGED <<final_reply, conversation, outcome>>
  /\ UNCHANGED <<variant, registry, idx, attempt, result, observation, requests>>

\* client.chat.completions.create raises in _qwen_llm_response: nothing in
\* run catches it
decision_raises ==
  /\ variant = "qwen"
  /\ pc = "DecisionPending"
  /\ pc' = "Idle"
  /\ outcome' = "backend_error"
  /\ UNCHANGED <<variant, registry, conversation, decision, engine, final_reply,
                 requests>>

\* the end of _execute_action with result dict res: json.dumps(result), the
\* assistant turn of _qwen_generate_reply and the summary call; a TypeError
\* of json.dumps propagates out of run
ExecuteReturn(res) ==
  IF ResultSerializable(res)
  THEN /\ observation' = JsonDumps(res)
       /\ messages' = Append(messages, AssistantTurn(thought, observation'))
       /\ backend_request' = [kind |-> "summary", messages |-> messages',
                              tools |-> <<>>, with_tools |-> FALSE]
       /\ pc' = "Summarizing"
       /\ UNCHANGED outcome
  ELSE /\ pc' = "Idle"
       /\ outcome' = "error"
       /\ UNCHANGED <<observation, conversation>>

\* the end of one iteration of the for loop with result dict res: the next
\* iteration, or the end of _execute_action
NextCall(res) ==
  /\ result' = res
  /\ idx' = idx + 1
  /\ attempt' = 0
  /\ IF idx < Len(actions)
     THEN UNCHANGED <<pc, observation, conversation, outcome>>
     ELSE ExecuteReturn(res)

\* the message of the exception raised before a handle is reached:
\* json.loads of the arguments comes first, then the registry lookup
RejectMessage(call) ==
  IF ~ArgsDecode(call.arguments).ok THEN JsonDecodeError
  ELSE NotRegisteredQwen(call.name)

\* an engine that skips the registry lookup
CallableNoLookup(call) == ArgsDecode(call.arguments).ok

\* does the call reach the retry loop
Callable(call) == ArgsDecode(call.arguments).ok /\ Registered(call.name)

\* an outer except that sits outside the for loop: the first rejected call
\* ends _execute_action
RejectedAborts(name, message) ==
  /\ result' = DictSet(result, name, PyStr(message))
  /\ idx' = idx + 1
  /\ attempt' = 0
  /\ ExecuteReturn(result')

\* the outer except sits inside the for loop: result[name] = str(e), then
\* the next iteration
Rejected(name, message) == NextCall(DictSet(result, name, PyStr(message)))

\* an engine whose json.loads of the arguments sits before the try: the
\* JSONDecodeError leaves _execute_action and run
execute_reject_uncaught ==
  /\ variant = "qwen"
  /\ pc = "Executing"
  /\ ~Callable(actions[idx])
  /\ IF ~ArgsDecode(actions[idx].arguments).ok
     THEN /\ pc' = "Idle"
          /\ outcome' = "error"
          /\ UNCHANGED <<result, idx, attempt, observation, conversation>>
     ELSE Rejected(actions[idx].name, RejectMessage(actions[idx]))
  /\ UNCHANGED <<variant, registry, decision, handle_log, final_reply, requests>>

\* one iteration that ends in the outer except
execute_reject ==
  /\ variant = "qwen"
  /\ pc = "Executing"
  /\ ~Callable(actions[idx])
  /\ Rejected(actions[idx].name, RejectMessage(actions[idx]))
  /\ UNCHANGED <<variant, registry, decision, handle_log, final_reply, requests>>

\* one attempt whose handle returns v: the success entry, then break
execute_attempt_returns(v) ==
  /\ variant = "qwen"
  /\ pc = "Executing"
  /\ Callable(actions[idx])
  /\ handle_log' = Logged(Returned(v))
  /\ NextCall(DictSet(result, actions[idx].name, SuccessDict(v)))
  /\ UNCHANGED <<variant, registry, decision, final_reply, requests>>

\* one attempt whose handle raises e: retry, or on the last attempt
\* result[name] = str(e)
execute_attempt_raises(e) ==
  /\ variant = "qwen"
  /\ pc = "Executing"
  /\ Callable(actions[idx])
  /\ handle_log' = Logged(Raised(e))
  /\ IF LastAttempt
     THEN NextCall(DictSet(result, actions[idx].name, PyStr(e)))
     ELSE /\ attempt' = attempt + 1
          /\ UNCHANGED <<result, idx, pc, observation, conversation, outcome>>
  /\ UNCHANGED <<variant, registry, decision, final_reply, requests>>

\* a run that goes back to the model for another decision after the summary
summary_returns_replans(content) ==
  /\ variant = "qwen"
  /\ pc = "Summarizing"
  /\ final_reply' = content
  /\ messages' = ResetMessages
  /\ backend_request' = [kind |-> "decision", messages |-> messages',
                         tools |-> tool_schemas, with_tools |-> TRUE]
  /\ pc' = "DecisionPending"
  /\ outcome' = "running"
  /\ UNCHANGED <<variant, registry, decision, engine, requests>>

\* the summary call returns: the reply, the reset, the return
summary_returns(content) ==
  /\ variant = "qwen"
  /\ pc = "Summarizing"
  /\ final_reply' = content
  /\ messages' = ResetMessages
  /\ pc' = "Idle"
  /\ outcome' = "returned"
  /\ UNCHANGED <<variant, registry, decision, engine, backend_request, requests>>

\* a run that resets the conversation in a finally block
summary_raises_reset ==
  /\ variant = "qwen"
  /\ pc = "Summarizing"
  /\ pc' = "Idle"
  /\ outcome' = "backend_error"
  /\ messages' = ResetMessages
  /\ UNCHANGED <<variant, registry, backend_request, decision, engine, final_reply,
                 requests>>

\* the summary call raises in _qwen_generate_reply: nothing in run catches it
summary_raises ==
  /\ variant = "qwen"
  /\ pc = "Summarizing"
  /\ pc' = "Idle"
  /\ outcome' = "backend_error"
  /\ UNCHANGED <<variant, registry, conversation, decision, engine, final_reply,
                 requests>>

\* ----------------------------------------------------- marker variant: run
\* run up to the first handle invocation: the mocked response, _parse_action
run_marker(user_input) ==
  /\ variant = "marker"
  /\ pc = "Idle"
  /\ requests < MaxRequests
  /\ requests' = requests + 1
  /\ llm_response' = MockLlmResponse(user_input)
  /\ idx' = 1
  /\ attempt' = 0
  /\ result' = <<>>
  /\ observation' = NoObservation
  /\ LET action == ParseActionMarker(llm_response') IN
       IF action = None
       THEN /\ final_reply' = NoActionReply
            /\ pc' = "Idle"
            /\ outcome' = "returned"
            /\ actions' = <<>>
            /\ thought' = ""
            /\ handle_log' = <<>>
       ELSE /\ actions' = action.actions
            /\ thought' = action.thought
            /\ handle_log' = <<<<>>>>
            /\ final_reply' = NoReply
            /\ pc' = "Executing"
            /\ outcome' = "running"
  /\ UNCHANGED <<variant, registry, conversation>>

\* _execute_action returns obs; _mock_generate_reply; run returns
MarkerReturn(obs) ==
  /\ observation' = obs
  /\ final_reply' = MockGenerateReply(thought, obs)
  /\ idx' = idx + 1
  /\ attempt' = 0
  /\ pc' = "Idle"
  /\ outcome' = "returned"

\* a lookup that inserts the missing name (self.tools.setdefault)
marker_reject_inserts ==
  /\ variant = "marker"
  /\ pc = "Executing"
  /\ ~Registered(actions[idx].name)
  /\ MarkerReturn(PlainText(NotRegisteredMarker(actions[idx].name)))
  /\ tools' = [n \in (DOMAIN tools) \cup {actions[idx].name} |->
                IF n \in DOMAIN tools THEN tools[n] ELSE "none"]
  /\ UNCHANGED <<variant, tool_schemas, conversation, decision, result,
                 handle_log, requests>>

\* tool_name not in self.tools: the plain error text
marker_reject ==
  /\ variant = "marker"
  /\ pc = "Executing"
  /\ ~Registered(actions[idx].name)
  /\ MarkerReturn(PlainText(NotRegisteredMarker(actions[idx].name)))
  /\ UNCHANGED <<variant, registry, conversation, decision, result, handle_log,
                 requests>>

\* a retry loop that makes one attempt more: range(1, max_retries + 2)
MarkerFailedLate(e) ==
  IF attempt = max_retries
  THEN MarkerReturn(JsonDumps(ErrorDict(e)))
  ELSE /\ attempt' = attempt + 1
       /\ UNCHANGED <<observation, final_reply, idx, pc, outcome>>

\* an attempt failed with message e: the error observation on the last
\* attempt, otherwise the next attempt
MarkerFailed(e) ==
  IF LastAttempt
  THEN MarkerReturn(JsonDumps(ErrorDict(e)))
  ELSE /\ attempt' = attempt + 1
       /\ UNCHANGED <<observation, final_reply, idx, pc, outcome>>

\* the handle returned v: json.dumps of the success dict is inside the try,
\* so a value it rejects makes the attempt a failed one
MarkerSucceeded(v) ==
  IF JsonSerializable(v)
  THEN MarkerReturn(JsonDumps(SuccessDict(v)))
  ELSE MarkerFailed(NotSerializable)

\* one attempt whose handle returns v
marker_attempt_returns(v) ==
  /\ variant = "marker"
  /\ pc = "Executing"
  /\ Registered(actions[idx].name)
  /\ handle_log' = Logged(Returned(v))
  /\ MarkerSucceeded(v)
  /\ UNCHANGED <<variant, registry, conversation, decision, result, requests>>

\* one attempt whose handle raises e
marker_attempt_raises(e) ==
  /\ variant = "marker"
  /\ pc = "Executing"
  /\ Registered(actions[idx].name)
  /\ handle_log' = Logged(Raised(e))
  /\ MarkerFailed(e)
  /\ UNCHANGED <<variant, registry, conversation, decision, result, requests>>

\* ------------------------------------------------------------------ Next
Next ==
  \/ \E f \in Funcs : register_tool(f)
  \/ \E u \in UserInputs : run_qwen(u)
  \/ \E r \in LlmResponses : decision_returns(r)
  \/ decision_raises
  \/ execute_reject
  \/ \E v \in ReturnValues : execute_attempt_returns(v)
  \/ \E e \in HandleErrors : execute_attempt_raises(e)
  \/ \E c \in Summaries : summary_returns(c)
  \/ summary_raises
  \/ \E u \in UserInputs : run_marker(u)
  \/ marker_reject
  \/ \E v \in ReturnValues : marker_attempt_returns(v)
  \/ \E e \in HandleErrors : marker_attempt_raises(e)

Spec == Init /\ [][Next]_vars

\* a step of _execute_action: every handle invocation returns or raises
EngineStep ==
  \/ execute_reject
  \/ \E v \in ReturnValues : execute_attempt_returns(v)
  \/ \E e \in HandleErrors : execute_attempt_raises(e)
  \/ marker_reject
  \/ \E v \in ReturnValues : marker_attempt_returns(v)
  \/ \E e \in HandleErrors : marker_attempt_raises(e)

\* the program with handles that do not hang
SpecFair == Spec /\ WF_vars(EngineStep)

\* ------------------------------------------- _parse_action called alone
\* an Agent of the marker variant and a text to extract a decision from
InitParse ==
  /\ variant = "marker"
  /\ tools = [n \in {} |-> ""]
  /\ tool_schemas = <<>>
  /\ messages = InitMessages
  /\ pc = "Idle"
  /\ actions = <<>>
  /\ thought = ""
  /\ idx = 1
  /\ attempt = 0
  /\ result = <<>>
  /\ handle_log = <<>>
  /\ llm_response \in MarkerTexts
  /\ observation = NoObservation
  /\ backend_request = NoBackendRequest
  /\ final_reply = NoReply
  /\ outcome = "none"
  /\ requests = 0

\* agent._parse_action(text): the action it returns (None: no actions), or
\* the exception that reaches the caller
parse_action ==
  /\ variant = "marker"
  /\ pc = "Idle"
  /\ LET call == ParseActionCall(llm_response) IN
       /\ outcome' = IF call.raised THEN "error" ELSE "returned"
       /\ actions' = IF call.value = None THEN <<>> ELSE call.value.actions
       /\ thought' = IF call.value = None THEN "" ELSE call.value.thought
  /\ pc' = "Parsed"
  /\ UNCHANGED <<variant, registry, conversation, llm_response, engine,
                 final_reply, requests>>

NextParse == parse_action

SpecParse == InitParse /\ [][NextParse]_vars

\* ----------------------------------------------------------- properties
Calls == 1..Len(actions)

\* the handle invocations made on behalf of call i
AttemptsUsed(i) == Len(handle_log[i])

AllRaised(i) ==
  \A k \in 1..Len(handle_log[i]) : handle_log[i][k].kind = "raised"

\* the handle of call i returned for the first time on attempt k
FirstSuccess(i, k) ==
  /\ k \in 1..Len(handle_log[i])
  /\ handle_log[i][k].kind = "returned"
  /\ \A j \in 1..(k - 1) : handle_log[i][j].kind = "raised"

\* the outcome the engine produced for the call it finished last: the entry
\* of the result dict under its name, or the observation of the marker
\* variant
LatestOutcome ==
  IF variant = "qwen" THEN DictGet(result, actions[idx - 1].name)
  ELSE IF observation.fmt = "json" THEN observation.doc
  ELSE PyStr(observation.doc)

\* the status of a duck-typed outcome: the success dict is a success, an
\* error dict, a bare message or a plain error text is an error
StatusOf(o) == IF o.py = "dict" /\ o.status = "success" THEN "success" ELSE "error"

\* the outcome of a call executed alone, from what its own handle did
SoloOutcome(call, log) ==
  IF log = <<>> THEN PyStr(RejectMessage(call))
  ELSE IF log[Len(log)].kind = "returned" THEN SuccessDict(log[Len(log)].value)
  ELSE PyStr(log[Len(log)].value)

C2_ExhaustedAfterThree ==
  \A i \in Calls :
    (i < idx /\ AttemptsUsed(i) > 0 /\ AllRaised(i)) =>
      /\ AttemptsUsed(i) = 3
      /\ (i = idx - 1 =>
            /\ StatusOf(LatestOutcome) = "error"
            /\ LatestOutcome.payload = handle_log[i][3].value)

C2_Witness ==
  /\ idx = 2
  /\ AttemptsUsed(1) = 3 /\ AllRaised(1)
  /\ StatusOf(LatestOutcome) = "error"

\* C3: once the handle of a call has returned on attempt k the call is
\* finished with k invocations, and its outcome is the success outcome with
\* the returned value.
C3_SuccessStopsRetry ==
  \A i \in Calls : \A k \in 1..max_retries :
    FirstSuccess(i, k) =>
      /\ i < idx
      /\ AttemptsUsed(i) = k
      /\ (i = idx - 1 => LatestOutcome = SuccessDict(handle_log[i][k].value))

\* C4: the result _execute_action returns holds one outcome per call of the
\* decision.
C4_OneOutcomePerCall ==
  (variant = "qwen" /\ observation.fmt = "json") =>
    Len(observation.doc) = Len(actions)

\* a finished call that failed: rejected before any invocation (tool not
\* registered, arguments not decodable) or failed on all attempts
Failed(i) ==
  /\ i < idx
  /\ \/ handle_log[i] = <<>>
     \/ AttemptsUsed(i) = max_retries /\ AllRaised(i)

\* C5: a failed call does not end the batch: the engine leaves the loop only
\* when every call has been processed, and a call after a failed one is
\* invoked if it is callable and gets the outcome it would get alone.
C5_FailureDoesNotAbort ==
  (variant = "qwen" /\ actions # <<>>) =>
    /\ (pc # "Executing" => idx = Len(actions) + 1)
    /\ \A i \in Calls : \A j \in Calls :
         (Failed(i) /\ i < j /\ j < idx) =>
           /\ (pc \in {"Executing", "Summarizing"} =>
                 (Callable(actions[j]) <=> handle_log[j] # <<>>))
           /\ (j = idx - 1 =>
                 LatestOutcome = SoloOutcome(actions[j], handle_log[j]))

C5_Witness ==
  /\ variant = "qwen"
  /\ idx = 3
  /\ Failed(1) /\ handle_log[1] = <<>>
  /\ LatestOutcome = SuccessDict("8")
  /\ pc = "Summarizing"

\* C6: when run has returned a reply the conversation is the single system
\* message again.
C6_ResetOnReturn ==
  (pc = "Idle" /\ outcome = "returned") => messages = InitMessages

C6_Witness ==
  /\ variant = "qwen"
  /\ pc = "Idle" /\ outcome = "returned"
  /\ final_reply \in Summaries
  /\ messages = InitMessages

\* C7: the conversation sent to the model backend holds the system message
\* and turns of the current request only: system and user turn at the
\* decision call, system, user and assistant turn at the summary call.
C7_NoTurnOfEarlierRequest ==
  /\ backend_request.kind = "decision" =>
       /\ Len(backend_request.messages) = 2
       /\ backend_request.messages[1] = SystemMessage
       /\ backend_request.messages[2].role = "user"
  /\ backend_request.kind = "summary" =>
       /\ Len(backend_request.messages) = 3
       /\ backend_request.messages[1] = SystemMessage
       /\ backend_request.messages[2].role = "user"
       /\ backend_request.messages[3].role = "assistant"

\* C8: when a model-backend call has raised, run has returned no reply and
\* the conversation is not reset: it is still what was sent with the call
\* that raised, the turns of this cycle included.
C8_RaiseLeavesConversation ==
  (pc = "Idle" /\ outcome = "backend_error") =>
    /\ final_reply = NoReply
    /\ messages = backend_request.messages
    /\ Len(messages) >= 2
    /\ messages[Len(messages)].role =
         (IF backend_request.kind = "decision" THEN "user" ELSE "assistant")

C8_Witness ==
  /\ pc = "Idle" /\ outcome = "backend_error"
  /\ backend_request.kind = "summary"
  /\ Len(messages) = 3

\* the response run is working on carries no decision
NoDecisionExtracted ==
  /\ requests > 0
  /\ IF variant = "qwen"
     THEN llm_response # NoResponse /\ ParseActionQwen(llm_response) = None
     ELSE ParseActionMarker(llm_response) = None

\* C9: a response without a decision takes run straight to its return: the
\* fixed reply, the reset conversation, no handle invoked and no summary
\* call issued.
C9_NoDecisionShortCircuits ==
  NoDecisionExtracted =>
    /\ pc = "Idle" /\ outcome = "returned"
    /\ final_reply = NoActionReply
    /\ messages = InitMessages
    /\ handle_log = <<>>
    /\ backend_request.kind # "summary"

C9_Witness ==
  /\ variant = "qwen"
  /\ NoDecisionExtracted
  /\ DOMAIN tools # {}
  /\ final_reply = NoActionReply

\* the outcome of call i is in the assistant turn of the summary request
Carried(i) ==
  LET doc == backend_request.messages[Len(backend_request.messages)].observation.doc
  IN \E n \in 1..Len(doc) :
       doc[n] = <<actions[i].name, SoloOutcome(actions[i], handle_log[i])>>

\* C10: the summary call is issued when every call of the decision has its
\* outcome, the assistant turn sent with it carries one outcome per call,
\* and no handle is invoked while the summary call is pending.
C10_SummaryAfterAllOutcomes ==
  /\ [](pc = "Summarizing" =>
          /\ idx = Len(actions) + 1
          /\ Len(backend_request.messages[Len(backend_request.messages)].observation.doc)
               = Len(actions)
          /\ \A i \in Calls : Carried(i))
  /\ [][pc = "Summarizing" => handle_log' = handle_log]_vars

\* the text holds no Action: marker at all
NoActionMarker(text) == \A i \in 1..Len(text) : text[i] # "Action:"

\* C11: a text without an Action segment, or whose Action segment is not
\* JSON, makes _parse_action return None: no exception reaches the caller.
C11_ExtractionFailsSoftly ==
  (pc = "Parsed" /\ \/ NoActionMarker(llm_response)
                    \/ ActionMatches(llm_response) = {}
                    \/ ActionSegment(llm_response) \notin DOMAIN JsonObjects) =>
    /\ outcome = "returned"
    /\ actions = <<>>

C11_Witness ==
  /\ pc = "Parsed"
  /\ ActionMatches(llm_response) # {}
  /\ ActionSegment(llm_response) \notin DOMAIN JsonObjects
  /\ outcome = "returned" /\ actions = <<>>

\* the JSON objects that carry a tool and a parameters field
FullObjects == {b \in DOMAIN JsonObjects : JsonObjects[b].tool # Missing}

\* a text with well-formed segments: Thought: and a thought free of markers,
\* a newline, Action: at position a with a JSON object after it, and
\* Observation: at position o
WellFormedAt(text, a, o) ==
  /\ text[1] = "Thought:"
  /\ 2 < a /\ a < o
  /\ \A k \in 2..(a - 1) : text[k] \notin {"Thought:", "Action:", "Observation:"}
  /\ text[a - 1] = "\n"
  /\ text[a] = "Action:"
  /\ text[o] = "Observation:"
  /\ Strip(SubSeq(text, a + 1, o - 1)) \in FullObjects

\* C12: on a text with well-formed segments the extraction yields one call
\* request with the tool and the parameters of the embedded JSON object.
C12_ExtractionFaithful ==
  pc = "Parsed" =>
    \A a \in 1..Len(llm_response) : \A o \in 1..Len(llm_response) :
      WellFormedAt(llm_response, a, o) =>
        /\ outcome = "returned"
        /\ actions =
             <<[name |-> JsonObjects[Strip(SubSeq(llm_response, a + 1, o - 1))].tool,
                arguments |->
                  JsonObjects[Strip(SubSeq(llm_response, a + 1, o - 1))].parameters]>>

\* the tool-call entries of a response of the structured variant
ToolCallsOf(response) ==
  IF Len(response.choices) > 0 THEN response.choices[1].tool_calls ELSE <<>>

\* C13: the calls handed to the engine are the tool-call entries of the
\* response, one per entry and in the same order, and the engine works on
\* them in that order; a response with no choices or with no tool calls
\* gives no decision: nothing is executed and run returns the fixed reply.
C13_StructuredExtraction ==
  (variant = "qwen" /\ requests > 0 /\ llm_response # NoResponse) =>
    LET tcs == ToolCallsOf(llm_response) IN
      /\ Len(actions) = Len(tcs)
      /\ \A i \in 1..Len(tcs) :
           /\ actions[i].name = tcs[i].name
           /\ actions[i].arguments = tcs[i].arguments
      /\ Len(handle_log) = Len(tcs)
      /\ \A i \in 1..Len(tcs) : i > idx => handle_log[i] = <<>>
      /\ tcs = <<>> =>
           /\ pc = "Idle" /\ outcome = "returned"
           /\ final_reply = NoActionReply
           /\ backend_request.kind = "decision"

C13_Witness ==
  /\ variant = "qwen"
  /\ Len(ToolCallsOf(llm_response)) = 2
  /\ ToolCallsOf(llm_response)[1].name # ToolCallsOf(llm_response)[2].name
  /\ actions = ToolCallsOf(llm_response)
  /\ idx = 3
  /\ handle_log[1] # <<>> /\ handle_log[2] # <<>>

\* the arguments string of call i is not valid JSON
Undecodable(i) == ~ArgsDecode(actions[i].arguments).ok

C15_ToolNamesUnique ==
  /\ \A i \in 1..Len(tool_schemas) : \A j \in 1..Len(tool_schemas) :
       tool_schemas[i] = tool_schemas[j] => i = j
  /\ DOMAIN tools = {tool_schemas[i] : i \in 1..Len(tool_schemas)}

\* call i is finished and was turned down because its tool is not in the
\* registry
Absent(i) ==
  /\ i < idx
  /\ handle_log[i] = <<>>
  /\ variant = "qwen" => ~Undecodable(i)

\* C16: a decision naming a tool that is not registered does not end run
\* with an exception and the call is not dropped: the batch is processed
\* to its end and the reply is generated from the error outcome of the
\* call, the failure reply of _mock_generate_reply in the marker variant
\* and an error entry in the assistant turn of the summary call in the
\* structured variant.
C16_AbsentToolReachesReply ==
  \A i \in Calls : Absent(i) =>
    /\ outcome # "error"
    /\ (pc # "Executing" => idx = Len(actions) + 1)
    /\ (variant = "marker" /\ pc = "Idle") =>
         final_reply =
           MockGenerateReply(thought,
             JsonDumps(ErrorDict(NotRegisteredMarker(actions[i].name))))
    /\ (variant = "qwen" /\ pc = "Summarizing") =>
         LET doc ==
           backend_request.messages[Len(backend_request.messages)].observation.doc
         IN \E n \in 1..Len(doc) :
              /\ doc[n][1] = actions[i].name
              /\ StatusOf(doc[n][2]) = "error"

\* C17: only register_tool changes the registry: no step of run, from the
\* user turn to the return, changes the tools mapping or the schema list,
\* so a name resolves to the same handle throughout.
C17_RunLeavesRegistry ==
  [][(pc # "Idle" \/ requests' # requests) =>
       /\ tools' = tools
       /\ tool_schemas' = tool_schemas]_vars

C17_Witness ==
  /\ pc = "Idle" /\ outcome = "returned"
  /\ requests = 2
  /\ DOMAIN tools = {"add"}
  /\ tool_schemas = <<"add">>
  /\ Len(handle_log) > 0
  /\ handle_log[1] # <<>>

\* call j is the last finished call of its tool name
LastOfName(j) ==
  /\ j < idx
  /\ \A k \in Calls : (j < k /\ k < idx) => actions[k].name # actions[j].name

\* C18: when two finished calls name the same tool, the result dict holds
\* one entry under that name and it is the outcome of the later call,
\* success or error.
C18_LaterOutcomeWins ==
  variant = "qwen" =>
    \A i \in Calls : \A j \in Calls :
      (i < j /\ actions[i].name = actions[j].name /\ LastOfName(j)) =>
        /\ Cardinality({n \in 1..Len(result) : result[n][1] = actions[j].name}) = 1
        /\ DictGet(result, actions[j].name) = SoloOutcome(actions[j], handle_log[j])

C18_Witness ==
  /\ variant = "qwen"
  /\ pc = "Summarizing"
  /\ idx = 3
  /\ actions[1].name = actions[2].name
  /\ handle_log[1] = <<Returned("8")>>
  /\ AttemptsUsed(2) = max_retries
  /\ Len(result) = 1
  /\ StatusOf(result[1][2]) = "error"

\* the moves of run: the structured variant waits for the model backend in
\* DecisionPending and Summarizing; the marker variant makes its mocked
\* decision and its reply inside the steps that enter and leave Executing
Moves ==
  IF variant = "qwen"
  THEN {<<"Idle", "DecisionPending">>, <<"DecisionPending", "Executing">>,
        <<"DecisionPending", "Idle">>, <<"Executing", "Summarizing">>,
        <<"Summarizing", "Idle">>}
  ELSE {<<"Idle", "Executing">>, <<"Executing", "Idle">>}

\* C19: one cycle per run. The position of run changes only along Idle ->
\* DecisionPending -> Executing -> Summarizing -> Idle or DecisionPending ->
\* Idle (a run that ends with an exception goes to Idle from where it is);
\* a model-backend call is issued only on entering DecisionPending (the
\* decision call, with the schema list) and on entering Summarizing (the
\* summary call, without it); a run starts only from Idle and the engine
\* starts only once, on entering Executing, with no call processed yet.
C19_OneCyclePerRun ==
  /\ [](variant = "qwen" =>
          /\ (pc \in {"DecisionPending", "Executing"} =>
                /\ backend_request.kind = "decision"
                /\ backend_request.with_tools
                /\ backend_request.tools = tool_schemas)
          /\ (pc = "DecisionPending" => handle_log = <<>>)
          /\ (pc = "Summarizing" =>
                /\ backend_request.kind = "summary"
                /\ ~backend_request.with_tools))
  /\ [][/\ (pc' # pc =>
              \/ <<pc, pc'>> \in Moves
              \/ pc' = "Idle" /\ outcome' \in {"error", "backend_error"})
         /\ (requests' # requests => pc = "Idle" /\ requests' = requests + 1)
         /\ ((pc' = pc \/ pc' \in {"Executing", "Idle"}) =>
              backend_request' = backend_request)
         /\ ((pc # "Executing" /\ pc' = "Executing") =>
              /\ idx' = 1
              /\ \A i \in 1..Len(handle_log') : handle_log'[i] = <<>>)
         /\ ((pc = "Executing" /\ pc' = "Executing") =>
              /\ actions' = actions
              /\ idx' >= idx)]_vars

C19_Witness ==
  /\ variant = "qwen"
  /\ pc = "Idle" /\ outcome = "returned"
  /\ requests = 1
  /\ backend_request.kind = "summary"
  /\ tool_schemas # <<>>
  /\ idx = Len(actions) + 1

\* the handle invocations of the batch, over the calls 1..n
RECURSIVE Invocations(_)
Invocations(n) == IF n = 0 THEN 0 ELSE Invocations(n - 1) + Len(handle_log[n])

====
